---- MODULE Spec2Model ----
(***************************************************************************)
(* Model of trends_dashboard_service.py: a launcher script that imports    *)
(* sys and os, and, when run as the main module, prints a fixed banner and *)
(* then does exec(open('complete_dashboard.py').read()).                   *)
(*                                                                         *)
(* One run of the script is one process.  The content of the external file *)
(* is unknown to the repository, so it is an input: a short straight-line  *)
(* program over a handful of statement kinds (print, bind a name, use a    *)
(* name, the usual main-guarded blocking server start, raise, sys.exit).   *)
(* Start creates a process with fresh inputs; End removes it and remembers *)
(* what its launcher wrote, so that two runs can be compared.  CTRL+C is   *)
(* modelled where the process waits: while the server blocks.              *)
(***************************************************************************)
EXTENDS Integers, Sequences, FiniteSets, TLC

\* Longest external program, in statements.
MaxStmts == 2
\* Longest command line, in arguments after the script name.
MaxArgs == 1
\* "=" * 60
SepWidth == 60

VARIABLES
    name,       \* __name__ of the script's module in this run
    argv,       \* sys.argv[1:]
    file,       \* what 'complete_dashboard.py' is on disk in this run
    pc,         \* position of the script, "none" when there is no process
    bi,         \* number of banner print calls done
    text,       \* << >> or <<s>>: the string returned by read()
    dicts,      \* namespace dictionaries: the module's globals and a fresh one
    execGlobals,\* which dictionary the exec'd code runs in
    ip,         \* next statement of the exec'd code
    guards,     \* results of the main guards evaluated by the exec'd code
    stdout,     \* lines written to standard output, each with its writer
    stderr,     \* types of the tracebacks written to standard error
    exc,        \* << >> or <<e>>: the exception that reached the top level
    exitCode,   \* process exit status, -1 while the process has not exited
    cnt,        \* how often this run opened, read, exec'd, and began running
    prev        \* << >> or <<r>>: summary of the previous run

vars == <<name, argv, file, pc, bi, text, dicts, execGlobals, ip, guards,
          stdout, stderr, exc, exitCode, cnt, prev>>

------------------------------------------------------------------------------
\* Inputs

MainName == "__main__"
ModuleName == "trends_dashboard_service"
TargetPath == "complete_dashboard.py"

ModuleNames == {MainName, ModuleName}

RECURSIVE SeqsUpTo(_, _)
SeqsUpTo(S, n) ==
    IF n = 0 THEN {<< >>}
    ELSE LET shorter == SeqsUpTo(S, n - 1)
         IN  shorter \cup {Append(s, x) : s \in shorter, x \in S}

ArgvSet == SeqsUpTo({"--port=9000"}, MaxArgs)

Unbound == "<unbound>"
Names == {"__name__", "sys", "os", "app", "dash"}

Stmts ==
    { [op |-> "print", arg |-> "hello"],
      [op |-> "bind",  arg |-> "app"],
      [op |-> "use",   arg |-> "sys"],
      [op |-> "use",   arg |-> "dash"],
      [op |-> "serve", arg |-> "app"],
      [op |-> "raise", arg |-> "ValueError"],
      [op |-> "exit",  arg |-> "0"],
      [op |-> "exit",  arg |-> "3"] }

Progs == SeqsUpTo(Stmts, MaxStmts)

FileStates ==
    { [st |-> "missing",     syntaxOk |-> FALSE, prog |-> << >>],
      [st |-> "denied",      syntaxOk |-> FALSE, prog |-> << >>],
      [st |-> "undecodable", syntaxOk |-> FALSE, prog |-> << >>] }
    \cup { [st |-> "ok", syntaxOk |-> ok, prog |-> p] : ok \in BOOLEAN, p \in Progs }

------------------------------------------------------------------------------
\* The banner

RECURSIVE Repeat(_, _)
Repeat(s, n) == IF n = 0 THEN "" ELSE s \o Repeat(s, n - 1)

Sep == Repeat("=", SepWidth)

\* The argument of each print call, as its "\n"-separated segments.  The
\* bullet character U+2022 of lines 15-17 is written <U+2022>.
BannerArgs ==
    << <<Sep>>,
       <<"FASHION TRENDS DASHBOARD SERVICE">>,
       <<Sep>>,
       <<"", "Starting Dash application...">>,
       <<"Dashboard will be available at: http://localhost:8051">>,
       <<"", "Features:">>,
       <<"  <U+2022> Overview: Fashion trend analysis with Google Trends">>,
       <<"  <U+2022> Trends: State-wise analysis & fashion blog reports">>,
       <<"  <U+2022> Reports: Multi-timeframe comprehensive analysis">>,
       <<"", "Press CTRL+C to stop the server">>,
       <<Sep>>,
       <<"">> >>

\* Mutation: two print calls in the wrong order.
BannerArgSwapped(i) ==
    BannerArgs[IF i = 4 THEN 5 ELSE IF i = 5 THEN 4 ELSE i]

\* Mutation: the URL line takes its port from the command line.
BannerArgFromArgv(i) ==
    IF i = 5 /\ argv # << >>
    THEN <<"Dashboard will be available at: " \o argv[1]>>
    ELSE BannerArgs[i]

BannerArg(i) == BannerArgs[i]

\* print(s): every segment of s becomes a line of the stream.
PrintTo(out, who, segs) ==
    out \o [i \in 1..Len(segs) |-> [by |-> who, line |-> segs[i]]]

------------------------------------------------------------------------------
\* Namespaces

EmptyDict == [n \in Names |-> Unbound]

Builtin(n) == IF n = "__name__" THEN "builtins" ELSE Unbound

\* Mutation: exec(code, {}).
ExecTargetFresh == "fresh"

\* exec(code) with no globals argument runs in the caller's globals.
ExecTarget == "module"

Lookup(n) ==
    LET d == dicts[execGlobals]
    IN  IF d[n] # Unbound THEN d[n] ELSE Builtin(n)

\* Mutation: the main guard is missing.
IsMainAlways == TRUE

IsMain == name = MainName

------------------------------------------------------------------------------
\* Failure: nothing in the script catches, so an exception raised anywhere
\* ends the process with a traceback.

Err(t, a) == [type |-> t, arg |-> a]

\* sys.exit(c) raises SystemExit; at the top level it ends the process with
\* status c and without a traceback.
SysExit(c) == [type |-> "SystemExit", code |-> c]

\* The integer an argument literal of sys.exit denotes.
IntOf(lit) == IF lit = "0" THEN 0 ELSE 3

\* Mutation: failures exit with status 0.
ExitCodeZero(e) == 0

ExitCode(e) ==
    IF e.type = "SystemExit" THEN e.code
    ELSE IF e.type = "KeyboardInterrupt" THEN 130 ELSE 1

\* Mutation: a handler swallows the exception and the script ends normally.
RaiseSwallowed(e) ==
    /\ exc' = << >>
    /\ stderr' = stderr
    /\ exitCode' = 0
    /\ pc' = "done"

\* Mutation: a handler retries the launch (twice at most).
RaiseRetry(e) ==
    IF cnt.open < 3
    THEN /\ exc' = << >>
         /\ stderr' = stderr
         /\ exitCode' = exitCode
         /\ pc' = "open"
    ELSE /\ exc' = <<e>>
         /\ stderr' = Append(stderr, e.type)
         /\ exitCode' = 1
         /\ pc' = "done"

Raise(e) ==
    /\ exc' = <<e>>
    /\ stderr' = IF e.type = "SystemExit" THEN stderr ELSE Append(stderr, e.type)
    /\ exitCode' = ExitCode(e)
    /\ pc' = "done"

NoRaise == UNCHANGED <<exc, stderr, exitCode>>

------------------------------------------------------------------------------
NoFile == [st |-> "missing", syntaxOk |-> FALSE, prog |-> << >>]

ModuleDict(n) == [EmptyDict EXCEPT !["__name__"] = n]

\* No process of the script exists.
Init ==
    /\ name = ""
    /\ argv = << >>
    /\ file = NoFile
    /\ pc = "none"
    /\ bi = 0
    /\ text = << >>
    /\ dicts = [d \in {"module", "fresh"} |-> EmptyDict]
    /\ execGlobals = "module"
    /\ ip = 1
    /\ guards = << >>
    /\ stdout = << >>
    /\ stderr = << >>
    /\ exc = << >>
    /\ exitCode = -1
    /\ cnt = [open |-> 0, read |-> 0, exec |-> 0, run |-> 0]
    /\ prev = << >>

\* The script is loaded, as the main module or under its own name, with some
\* command line and some state of the target file.
Start ==
    /\ pc = "none"
    /\ \E n \in ModuleNames, a \in ArgvSet, f \in FileStates :
          /\ name' = n
          /\ argv' = a
          /\ file' = f
          /\ dicts' = [dicts EXCEPT !["module"] = ModuleDict(n)]
    /\ pc' = "import_sys"
    /\ UNCHANGED <<bi, text, execGlobals, ip, guards, stdout, stderr, exc,
                   exitCode, cnt, prev>>

ImportSys ==
    /\ pc = "import_sys"
    /\ dicts' = [dicts EXCEPT !["module"]["sys"] = "<module sys>"]
    /\ pc' = "import_os"
    /\ UNCHANGED <<name, argv, file, bi, text, execGlobals, ip, guards,
                   stdout, stderr, exc, exitCode, cnt, prev>>

ImportOs ==
    /\ pc = "import_os"
    /\ dicts' = [dicts EXCEPT !["module"]["os"] = "<module os>"]
    /\ pc' = "guard"
    /\ UNCHANGED <<name, argv, file, bi, text, execGlobals, ip, guards,
                   stdout, stderr, exc, exitCode, cnt, prev>>

Guard ==
    /\ pc = "guard"
    /\ pc' = IF IsMain THEN "banner" ELSE "done"
    /\ UNCHANGED <<name, argv, file, bi, text, dicts, execGlobals, ip, guards,
                   stdout, stderr, exc, exitCode, cnt, prev>>

NumPrints == Len(BannerArgs)

PrintBanner ==
    /\ pc = "banner"
    /\ bi < NumPrints
    /\ stdout' = PrintTo(stdout, "launcher", BannerArg(bi + 1))
    /\ bi' = bi + 1
    /\ pc' = IF bi + 1 = NumPrints THEN "open" ELSE "banner"
    /\ UNCHANGED <<name, argv, file, text, dicts, execGlobals, ip, guards,
                   stderr, exc, exitCode, cnt, prev>>

\* Mutation: a missing file is created empty and read.
OpenOrCreate ==
    /\ pc = "open"
    /\ cnt' = [cnt EXCEPT !.open = @ + 1]
    /\ CASE file.st = "denied"  -> Raise(Err("PermissionError", TargetPath))
         [] OTHER               -> pc' = "read" /\ NoRaise
    /\ UNCHANGED <<name, argv, file, bi, text, dicts, execGlobals, ip, guards,
                   stdout, prev>>

\* open('complete_dashboard.py')
Open ==
    /\ pc = "open"
    /\ cnt' = [cnt EXCEPT !.open = @ + 1]
    /\ CASE file.st = "missing" -> Raise(Err("FileNotFoundError", TargetPath))
         [] file.st = "denied"  -> Raise(Err("PermissionError", TargetPath))
         [] OTHER               -> pc' = "read" /\ NoRaise
    /\ UNCHANGED <<name, argv, file, bi, text, dicts, execGlobals, ip, guards,
                   stdout, prev>>

\* Mutation: open(..., errors='ignore'): what does not decode is dropped and
\* the rest is executed.
ReadLenient ==
    /\ pc = "read"
    /\ cnt' = [cnt EXCEPT !.read = @ + 1]
    /\ text' = <<[syntaxOk |-> file.st = "undecodable" \/ file.syntaxOk,
                  prog |-> file.prog]>>
    /\ pc' = "exec"
    /\ NoRaise
    /\ UNCHANGED <<name, argv, file, bi, dicts, execGlobals, ip, guards,
                   stdout, prev>>

\* .read(): the whole file as one string, or a decoding error.
Read ==
    /\ pc = "read"
    /\ cnt' = [cnt EXCEPT !.read = @ + 1]
    /\ IF file.st = "undecodable"
       THEN Raise(Err("UnicodeDecodeError", TargetPath)) /\ UNCHANGED text
       ELSE /\ text' = <<[syntaxOk |-> file.syntaxOk, prog |-> file.prog]>>
            /\ pc' = "exec"
            /\ NoRaise
    /\ UNCHANGED <<name, argv, file, bi, dicts, execGlobals, ip, guards,
                   stdout, prev>>

\* exec(s): compiles the whole string, then starts running it.
Exec ==
    /\ pc = "exec"
    /\ execGlobals' = ExecTarget
    /\ IF text[1].syntaxOk
       THEN /\ cnt' = [cnt EXCEPT !.exec = @ + 1, !.run = @ + 1]
            /\ pc' = "run"
            /\ NoRaise
       ELSE /\ cnt' = [cnt EXCEPT !.exec = @ + 1]
            /\ Raise(Err("SyntaxError", TargetPath))
    /\ UNCHANGED <<name, argv, file, bi, text, dicts, ip, guards, stdout, prev>>

Running == pc = "run" /\ ip <= Len(text[1].prog)
Stmt == text[1].prog[ip]

StepPrint ==
    /\ Running /\ Stmt.op = "print"
    /\ stdout' = PrintTo(stdout, "content", <<Stmt.arg>>)
    /\ ip' = ip + 1
    /\ UNCHANGED <<name, argv, file, pc, bi, text, dicts, execGlobals, guards,
                   stderr, exc, exitCode, cnt, prev>>

StepBind ==
    /\ Running /\ Stmt.op = "bind"
    /\ dicts' = [dicts EXCEPT ![execGlobals][Stmt.arg] = "<object>"]
    /\ ip' = ip + 1
    /\ UNCHANGED <<name, argv, file, pc, bi, text, execGlobals, guards,
                   stdout, stderr, exc, exitCode, cnt, prev>>

StepUse ==
    /\ Running /\ Stmt.op = "use"
    /\ IF Lookup(Stmt.arg) = Unbound
       THEN Raise(Err("NameError", Stmt.arg)) /\ UNCHANGED ip
       ELSE ip' = ip + 1 /\ UNCHANGED pc /\ NoRaise
    /\ UNCHANGED <<name, argv, file, bi, text, dicts, execGlobals, guards,
                   stdout, cnt, prev>>

\* if __name__ == "__main__": app.run_server(...)
StepServe ==
    /\ Running /\ Stmt.op = "serve"
    /\ LET g == Lookup("__name__") = MainName
       IN  /\ guards' = Append(guards, g)
           /\ IF ~g THEN ip' = ip + 1 /\ UNCHANGED pc /\ NoRaise
              ELSE IF Lookup(Stmt.arg) = Unbound
                   THEN Raise(Err("NameError", Stmt.arg)) /\ UNCHANGED ip
                   ELSE pc' = "serving" /\ UNCHANGED ip /\ NoRaise
    /\ UNCHANGED <<name, argv, file, bi, text, dicts, execGlobals,
                   stdout, cnt, prev>>

StepRaise ==
    /\ Running /\ Stmt.op = "raise"
    /\ Raise(Err(Stmt.arg, "boom"))
    /\ UNCHANGED <<name, argv, file, bi, text, dicts, execGlobals, ip, guards,
                   stdout, cnt, prev>>

\* sys.exit(c)
StepExit ==
    /\ Running /\ Stmt.op = "exit"
    /\ IF Lookup("sys") = Unbound
       THEN Raise(Err("NameError", "sys"))
       ELSE Raise(SysExit(IntOf(Stmt.arg)))
    /\ UNCHANGED <<name, argv, file, bi, text, dicts, execGlobals, ip, guards,
                   stdout, cnt, prev>>

\* CTRL+C while the server blocks.
Interrupt ==
    /\ pc = "serving"
    /\ Raise(Err("KeyboardInterrupt", ""))
    /\ UNCHANGED <<name, argv, file, bi, text, dicts, execGlobals, ip, guards,
                   stdout, cnt, prev>>

\* Mutation: the script announces the shutdown after exec returns.
FinishWithShutdown ==
    /\ pc = "run" /\ ip > Len(text[1].prog)
    /\ pc' = "done"
    /\ exitCode' = 0
    /\ stdout' = PrintTo(stdout, "launcher", <<"Dashboard stopped">>)
    /\ UNCHANGED <<name, argv, file, bi, text, dicts, execGlobals, ip, guards,
                   stderr, exc, cnt, prev>>

\* exec returns; line 23 is the last line of the script.
Finish ==
    /\ pc = "run" /\ ip > Len(text[1].prog)
    /\ pc' = "done"
    /\ exitCode' = 0
    /\ UNCHANGED <<name, argv, file, bi, text, dicts, execGlobals, ip, guards,
                   stdout, stderr, exc, cnt, prev>>

LinesBy(out, who) ==
    LET mine == SelectSeq(out, LAMBDA r : r.by = who)
    IN  [i \in 1..Len(mine) |-> mine[i].line]

ContentOut == LinesBy(stdout, "content")

\* The lifecycle state of the spec: Running once the file's content has begun
\* executing.
Lifecycle == IF cnt.run > 0 THEN "Running" ELSE "NotStarted"

LauncherOut == LinesBy(stdout, "launcher")

\* The process is gone; what its launcher wrote is kept for comparison with
\* the next run.
End ==
    /\ pc = "done"
    /\ prev' = <<[main |-> IsMain, out |-> LauncherOut]>>
    /\ name' = ""
    /\ argv' = << >>
    /\ file' = NoFile
    /\ pc' = "none"
    /\ bi' = 0
    /\ text' = << >>
    /\ dicts' = [d \in {"module", "fresh"} |-> EmptyDict]
    /\ execGlobals' = "module"
    /\ ip' = 1
    /\ guards' = << >>
    /\ stdout' = << >>
    /\ stderr' = << >>
    /\ exc' = << >>
    /\ exitCode' = -1
    /\ cnt' = [open |-> 0, read |-> 0, exec |-> 0, run |-> 0]

Next ==
    \/ Start
    \/ ImportSys \/ ImportOs \/ Guard \/ PrintBanner
    \/ Open \/ Read \/ Exec
    \/ StepPrint \/ StepBind \/ StepUse \/ StepServe \/ StepRaise \/ StepExit
    \/ Interrupt \/ Finish \/ End

Spec == Init /\ [][Next]_vars

------------------------------------------------------------------------------
\* Properties

\* Lines 9-20, as the lines a reader of the terminal sees.
ExpectedBanner ==
    << "============================================================",
       "FASHION TRENDS DASHBOARD SERVICE",
       "============================================================",
       "",
       "Starting Dash application...",
       "Dashboard will be available at: http://localhost:8051",
       "",
       "Features:",
       "  <U+2022> Overview: Fashion trend analysis with Google Trends",
       "  <U+2022> Trends: State-wise analysis & fashion blog reports",
       "  <U+2022> Reports: Multi-timeframe comprehensive analysis",
       "",
       "Press CTRL+C to stop the server",
       "============================================================",
       "" >>

BannerIsPrefix ==
    /\ Len(stdout) >= Len(ExpectedBanner)
    /\ \A i \in 1..Len(ExpectedBanner) :
          stdout[i] = [by |-> "launcher", line |-> ExpectedBanner[i]]

ContentFinished == cnt.run = 1 /\ pc = "done" /\ ip > Len(text[1].prog)

ContentStopped == cnt.run = 1 /\ pc = "done" /\ ip <= Len(text[1].prog)

ContentFailed == ContentStopped /\ text[1].prog[ip].op # "exit"

ContentExited(lit) ==
    /\ ContentStopped
    /\ text[1].prog[ip] = [op |-> "exit", arg |-> lit]

\* C1: in a run as main, once the script is about to open the target file, or
\* has opened it, or has started its content, standard output begins with the
\* fifteen banner lines, in the order of the source; in particular this holds
\* of the runs whose target exists and executes without error.
C1_BannerBeforeOpen ==
    (pc = "open" \/ cnt.open > 0 \/ cnt.run > 0) =>
        /\ BannerIsPrefix
        /\ (pc = "open" => LauncherOut = ExpectedBanner /\ ContentOut = << >>)

C1_Witness ==
    /\ name = MainName /\ ContentFinished /\ exc = << >>
    /\ ContentOut = <<"hello">>
    /\ LauncherOut = ExpectedBanner

\* C2 as stated: with the target file missing the run fails with
\* FileNotFoundError and neither "Starting Dash application..." nor the URL
\* line has been printed.
C2_Original ==
    (name = MainName /\ file.st = "missing" /\ pc = "done") =>
        /\ exc = <<Err("FileNotFoundError", TargetPath)>>
        /\ \A i \in 1..Len(stdout) :
              stdout[i].line \notin
                 {"Starting Dash application...",
                  "Dashboard will be available at: http://localhost:8051"}

\* C2 amended: with the target file missing the run fails with
\* FileNotFoundError for the target path, with a non-zero exit status; at
\* that moment standard output holds the banner and nothing else, and no
\* content has been executed.
C2_MissingFileFails ==
    (name = MainName /\ file.st = "missing" /\ pc = "done") =>
        /\ exc = <<Err("FileNotFoundError", TargetPath)>>
        /\ exitCode > 0
        /\ LauncherOut = ExpectedBanner
        /\ Len(stdout) = Len(ExpectedBanner)
        /\ cnt.exec = 0 /\ cnt.run = 0

C2_Witness ==
    /\ name = MainName /\ file.st = "missing" /\ pc = "done"
    /\ exc # << >> /\ exc[1].type = "FileNotFoundError"

\* The error the statement at ip raises, read off the program text.
StmtError ==
    LET st == text[1].prog[ip]
    IN  CASE st.op = "raise" -> Err(st.arg, "boom")
          [] st.op = "use"   -> Err("NameError", st.arg)
          [] st.op = "serve" ->
                IF dicts["module"][st.arg] = Unbound
                THEN Err("NameError", st.arg)
                ELSE Err("KeyboardInterrupt", "")
          [] OTHER -> Err("none", "")

\* C3: when the content of the target file stops at a statement that raises,
\* the exception at the top level is exactly the one that statement raised,
\* its traceback is the only one written, and the process has exited with a
\* non-zero status.
C3_ErrorPropagates ==
    ContentFailed =>
        /\ exc = <<StmtError>>
        /\ stderr = <<StmtError.type>>
        /\ exitCode > 0

C3_Witness ==
    /\ ContentFailed
    /\ text[1].prog[ip].op = "raise"
    /\ exc = <<Err("ValueError", "boom")>>

\* C4: in a run the file is opened at most once, read at most once, exec is
\* called at most once and the content starts at most once; a failure ends
\* the process at once, and nothing but the start of a new process follows
\* the end of one.
C4_SingleShot ==
    /\ [](/\ cnt.open <= 1 /\ cnt.read <= 1 /\ cnt.exec <= 1 /\ cnt.run <= 1
          /\ (exc # << >> => pc = "done"))
    /\ [][(exc' # << >> /\ exc = << >>) => stdout' = stdout]_vars
    /\ [][pc = "done" =>
            /\ pc' = "none"
            /\ stdout' = << >>
            /\ cnt' = [open |-> 0, read |-> 0, exec |-> 0, run |-> 0]]_vars

C4_Witness ==
    /\ pc = "done" /\ exc # << >>
    /\ cnt = [open |-> 1, read |-> 1, exec |-> 1, run |-> 1]

\* What C5 says in both versions: Running only once the content has begun
\* (never during the banner, the open or the read), entered at most once,
\* never left for NotStarted within a run, and no launcher output while or
\* after the content runs.
C5_Common ==
    /\ [](/\ Lifecycle \in {"NotStarted", "Running"}
          /\ (Lifecycle = "Running" <=> (name = MainName /\ (pc \in {"run", "serving"}
                                          \/ (pc = "done" /\ cnt.exec = 1
                                              /\ text[1].syntaxOk))))
          /\ cnt.run <= 1)
    /\ [][(pc # "done" /\ Lifecycle = "Running") => Lifecycle' = "Running"]_vars
    /\ [][(Lifecycle = "Running" /\ pc # "done") => LauncherOut' = LauncherOut]_vars

\* C5 as stated: ... and the run leaves Running only through an external
\* interrupt or an unhandled error (any exception at the top level counts).
C5_Original ==
    /\ C5_Common
    /\ [][(pc \in {"run", "serving"} /\ pc' = "done") => exc' # << >>]_vars

\* C5 amended: ... and the run leaves Running only through an external
\* interrupt, an unhandled error, or the content ending by itself (it runs
\* to its end or exits the process), after which the process exits without
\* a further step of the launcher.
C5_Lifecycle ==
    /\ C5_Common
    /\ [][(pc \in {"run", "serving"} /\ pc' = "done") =>
            \/ (exc' # << >> /\ exc'[1].type # "SystemExit")
            \/ (exc' # << >> /\ exc'[1].type = "SystemExit"
                  /\ text[1].prog[ip].op = "exit" /\ stdout' = stdout)
            \/ (exc' = << >> /\ ip > Len(text[1].prog) /\ stdout' = stdout)]_vars

C5_Witness ==
    /\ Lifecycle = "Running" /\ ContentFinished
    /\ exc = << >> /\ Len(text[1].prog) > 0

\* C6: a run as main exits with status 0 exactly when the content finished
\* without a failure (it ran to its end, or left through sys.exit(0)), and
\* with a non-zero status exactly when a failure reached the top level, be it
\* from open, read, compile or the content.
C6_ExitCode ==
    /\ (pc # "done" => exitCode = -1)
    /\ (name = MainName /\ pc = "done") =>
          /\ (exitCode = 0 <=> (ContentFinished \/ ContentExited("0")))
          /\ (exitCode > 0 <=> (exc # << >> /\ exc # <<SysExit(0)>>))
          /\ exitCode # -1

C6_Witness ==
    /\ name = MainName /\ pc = "done" /\ exitCode > 0
    /\ exc # << >> /\ exc[1].type = "UnicodeDecodeError"

\* C7: what the launcher of this run has written is a prefix of what the
\* launcher of the previous run as main wrote, and all of it once the banner
\* is done, whatever the two runs' target files and arguments; and every line
\* of the content stands after the complete, unchanged banner.
C7_StaticBanner ==
    /\ (name = MainName /\ prev # << >> /\ prev[1].main) =>
          /\ Len(LauncherOut) <= Len(prev[1].out)
          /\ LauncherOut = SubSeq(prev[1].out, 1, Len(LauncherOut))
          /\ (pc \notin {"none", "import_sys", "import_os", "guard", "banner"}
                => LauncherOut = prev[1].out)
    /\ \A i \in 1..Len(stdout) :
          stdout[i].by = "content" =>
             /\ bi = NumPrints
             /\ i > Len(LauncherOut)
             /\ \A j \in 1..Len(LauncherOut) : stdout[j].by = "launcher"

C7_Witness ==
    /\ name = MainName /\ prev # << >> /\ prev[1].main
    /\ argv # << >> /\ file.st = "ok"
    /\ ContentOut = <<"hello", "hello">>
    /\ LauncherOut = prev[1].out /\ Len(LauncherOut) > 0

\* C8: the content runs in the module's own globals: sys, os and __name__
\* (= "__main__") resolve for the content to the launcher's bindings, every
\* main guard the content evaluates is true, and every name a completed
\* statement of the content bound is bound in the module's globals.
C8_SharedNamespace ==
    cnt.run > 0 =>
        /\ dicts["module"]["__name__"] = MainName
        /\ \A n \in {"sys", "os", "__name__"} :
              /\ dicts["module"][n] # Unbound
              /\ Lookup(n) = dicts["module"][n]
        /\ \A k \in 1..Len(guards) : guards[k]
        /\ \A k \in 1..Len(text[1].prog) :
              (k < ip /\ text[1].prog[k].op = "bind")
                 => dicts["module"][text[1].prog[k].arg] # Unbound

C8_Witness ==
    /\ pc = "serving" /\ guards = <<TRUE>>
    /\ dicts["module"]["app"] = "<object>"

\* C9: exec is reached only with the whole file in hand: when the file is
\* missing, unreadable or undecodable, exec is never called, the lifecycle
\* stays NotStarted and the content writes nothing; and whenever exec has
\* been called, read has returned the file's whole program.
C9_ReadBeforeExec ==
    /\ file.st \in {"missing", "denied", "undecodable"} =>
          /\ cnt.exec = 0 /\ pc \notin {"exec", "run", "serving"}
          /\ Lifecycle = "NotStarted"
          /\ ContentOut = << >>
    /\ (cnt.exec > 0 \/ pc = "exec") =>
          /\ cnt.read = 1
          /\ text = <<[syntaxOk |-> file.syntaxOk, prog |-> file.prog]>>

C9_Witness ==
    /\ file.st = "undecodable" /\ pc = "done" /\ cnt.read = 1
    /\ exc # << >> /\ Lifecycle = "NotStarted"

\* C10: loaded under another module name, the script prints nothing, never
\* opens or reads the target file, never calls exec, and raises nothing.
C10_NotMainNoEffect ==
    name = ModuleName =>
        /\ stdout = << >> /\ stderr = << >> /\ exc = << >>
        /\ cnt = [open |-> 0, read |-> 0, exec |-> 0, run |-> 0]
        /\ text = << >>
        /\ pc \in {"import_sys", "import_os", "guard", "done"}

C10_Witness ==
    /\ name = ModuleName /\ pc = "done" /\ file.st = "ok"
    /\ dicts["module"]["os"] # Unbound
====
